---- MODULE Spec2Model ----
(***************************************************************************)
(* The metadata gateway of backend/main.py: the request limits middleware, *)
(* identifier validation, the metadata locator and the three endpoints.    *)
(*                                                                         *)
(* A Python str is a sequence of one-character strings; the NUL character  *)
(* is the token "NUL".  Times are whole seconds of time.monotonic().       *)
(* The platform is POSIX: os.sep = "/", os.altsep = None.                  *)
(***************************************************************************)
EXTENDS Integers, Sequences, FiniteSets, TLC

VARIABLES now, ip_windows, fs, allowed_env, conn, history

vars == <<now, ip_windows, fs, allowed_env, conn, history>>

(***************************************************************************)
(* Bounds of the model.                                                    *)
(***************************************************************************)
RateLimit == 2
MaxTime == 61
MaxLen == 1
MaxItems == 2

(***************************************************************************)
(* Program constants.                                                      *)
(***************************************************************************)
MAX_MULTIPART_SIZE == 52428800
WindowSeconds == 60

None == "None"

(***************************************************************************)
(* Character classes and the str methods the code uses.                    *)
(***************************************************************************)
Lower == {"a","b","c","d","e","f","g","h","i","j","k","l","m",
          "n","o","p","q","r","s","t","u","v","w","x","y","z"}
Upper == {"A","B","C","D","E","F","G","H","I","J","K","L","M",
          "N","O","P","Q","R","S","T","U","V","W","X","Y","Z"}
Digits == {"0","1","2","3","4","5","6","7","8","9"}
HexDigits == Digits \cup {"a","b","c","d","e","f","A","B","C","D","E","F"}
WordChars == Lower \cup Upper \cup Digits \cup {"_", "-"}
WhiteSpace == {" ", "\t", "\n", "\r"}
NUL == "NUL"

SetMin(S) == CHOOSE x \in S : \A y \in S : x <= y
SetMax(S) == CHOOSE x \in S : \A y \in S : x >= y

Contains(s, c) == \E i \in 1..Len(s) : s[i] = c

\* str.strip(chars): drop the leading and trailing characters that are in chars
StripChars(s, chars) ==
    LET keep == {i \in 1..Len(s) : s[i] \notin chars}
    IN  IF keep = {} THEN <<>> ELSE SubSeq(s, SetMin(keep), SetMax(keep))

\* str.strip()
Strip(s) == StripChars(s, WhiteSpace)

\* str.replace(pat, ""): remove the occurrences of pat, left to right
RECURSIVE RemoveAll(_, _)
RemoveAll(s, pat) ==
    IF Len(s) < Len(pat) THEN s
    ELSE IF SubSeq(s, 1, Len(pat)) = pat
         THEN RemoveAll(SubSeq(s, Len(pat) + 1, Len(s)), pat)
         ELSE <<s[1]>> \o RemoveAll(Tail(s), pat)

\* str.lower() on the ASCII letters
LowerChar(c) ==
    CASE c = "A" -> "a" [] c = "B" -> "b" [] c = "C" -> "c" [] c = "D" -> "d"
      [] c = "E" -> "e" [] c = "F" -> "f" [] c = "G" -> "g" [] c = "H" -> "h"
      [] c = "I" -> "i" [] c = "J" -> "j" [] c = "K" -> "k" [] c = "L" -> "l"
      [] c = "M" -> "m" [] c = "N" -> "n" [] c = "O" -> "o" [] c = "P" -> "p"
      [] c = "Q" -> "q" [] c = "R" -> "r" [] c = "S" -> "s" [] c = "T" -> "t"
      [] c = "U" -> "u" [] c = "V" -> "v" [] c = "W" -> "w" [] c = "X" -> "x"
      [] c = "Y" -> "y" [] c = "Z" -> "z" [] OTHER -> c

LowerStr(s) == [i \in 1..Len(s) |-> LowerChar(s[i])]

\* int(h, 16) succeeds: surrounding whitespace, a sign, a 0x prefix and single
\* underscores between digits (or right after the prefix) are accepted
HexDigitsOk(d) ==
    /\ Len(d) >= 1
    /\ d[1] \in HexDigits
    /\ d[Len(d)] \in HexDigits
    /\ \A i \in 1..Len(d) : d[i] \in HexDigits \cup {"_"}
    /\ \A i \in 1..(Len(d) - 1) : ~(d[i] = "_" /\ d[i + 1] = "_")

IntBase16Parses(h) ==
    LET t == Strip(h)
        u == IF Len(t) >= 1 /\ t[1] \in {"+", "-"} THEN Tail(t) ELSE t
        prefixed == Len(u) >= 2 /\ u[1] = "0" /\ u[2] \in {"x", "X"}
        v == IF prefixed THEN SubSeq(u, 3, Len(u)) ELSE u
        w == IF prefixed /\ Len(v) >= 1 /\ v[1] = "_" THEN Tail(v) ELSE v
    IN  HexDigitsOk(w)

\* uuid.UUID(s) does not raise
UUIDParses(s) ==
    LET h1 == RemoveAll(s, <<"u","r","n",":">>)
        h2 == RemoveAll(h1, <<"u","u","i","d",":">>)
        h3 == StripChars(h2, {"{", "}"})
        h4 == SelectSeq(h3, LAMBDA c : c # "-")
    IN  Len(h4) = 32 /\ IntBase16Parses(h4)

\* re.fullmatch(r"^[A-Za-z0-9_-]+$", s)
RegexMatch(s) == Len(s) >= 1 /\ \A i \in 1..Len(s) : s[i] \in WordChars

Separators == {"/", "\\"}

HasSeparatorOrNul(s) == Contains(s, NUL) \/ \E sep \in Separators : Contains(s, sep)

\* The validation at the head of find_metadata_path
ValidStem(stem) ==
    /\ stem # <<>>
    /\ ~HasSeparatorOrNul(stem)
    /\ (UUIDParses(stem) \/ RegexMatch(stem))

Some(v) == <<v>>
Absent == <<>>
Present(o) == o # <<>>
Get(o) == o[1]

\* A JSON object with no members (see the documents below)
EmptyDoc == [kind |-> "object", video_name |-> Absent, video_file |-> Absent,
             labels |-> Absent, shots |-> Absent, objects |-> Absent,
             text |-> Absent, faces |-> Absent]

(***************************************************************************)
(* The filesystem.  fs.root holds the direct children of VIDEOS_DIR, one   *)
(* record per file name:                                                   *)
(*   kind     "file"     a regular file                                    *)
(*            "dir"      a directory                                       *)
(*            "outlink"  a symlink to a regular file outside VIDEOS_DIR    *)
(*            "inlink"   a symlink to the file or directory named target   *)
(*                       in VIDEOS_DIR                                     *)
(*            "dangling" a symlink whose target does not exist             *)
(*   size     st_size of what the name resolves to                         *)
(*   stat_ok  FALSE when the entry is gone by the time stat() is called    *)
(*            on it by get_videos (line 135)                               *)
(*   open_ok  FALSE when open() is refused (PermissionError)               *)
(*   decodes  for a .json file: whether its bytes decode as text (when     *)
(*            they do not, f.read() raises UnicodeDecodeError)             *)
(*   parses   for a .json file: whether its text is JSON                   *)
(*   doc      for a .json file that parses: the document                   *)
(* fs.other holds the files that exist elsewhere, each under its spelling  *)
(* relative to VIDEOS_DIR (a name containing "/"); whether such a spelling *)
(* leaves VIDEOS_DIR is decided lexically (Escapes).                       *)
(***************************************************************************)
Mp4 == <<".", "m", "p", "4">>
Avi == <<".", "a", "v", "i">>
Mov == <<".", "m", "o", "v">>
Mkv == <<".", "m", "k", "v">>
Webm == <<".", "w", "e", "b", "m">>
JsonSuffix == <<".", "j", "s", "o", "n">>

\* Mutant of VIDEO_EXTENSIONS: the extensions in another order
VIDEO_EXTENSIONS_reordered == <<Webm, Mkv, Mov, Avi, Mp4>>

VIDEO_EXTENSIONS == <<Mp4, Avi, Mov, Mkv, Webm>>

InList(x, list) == \E i \in 1..Len(list) : list[i] = x

\* str.rfind(c): the last index of c, 0 when there is none
RFind(s, c) ==
    LET at == {i \in 1..Len(s) : s[i] = c}
    IN  IF at = {} THEN 0 ELSE SetMax(at)

\* The components of a path spelled with "/"
RECURSIVE Components(_)
Components(p) ==
    LET cut == {i \in 1..Len(p) : p[i] = "/"}
    IN  IF cut = {} THEN <<p>>
        ELSE <<SubSeq(p, 1, SetMin(cut) - 1)>>
             \o Components(SubSeq(p, SetMin(cut) + 1, Len(p)))

\* PurePath.name: the final component
FinalName(p) == LET c == Components(p) IN c[Len(c)]

\* PurePath.suffix and PurePath.stem of a file name
Suffix(name) ==
    LET i == RFind(name, ".")
    IN  IF 1 < i /\ i < Len(name) THEN SubSeq(name, i, Len(name)) ELSE <<>>

Stem(name) ==
    LET i == RFind(name, ".")
    IN  IF 1 < i /\ i < Len(name) THEN SubSeq(name, 1, i - 1) ELSE name

\* Depth below VIDEOS_DIR after each component; -1 once the path has left it
RECURSIVE Walk(_, _)
Walk(comps, depth) ==
    IF depth < 0 \/ comps = <<>> THEN depth
    ELSE LET c == Head(comps)
         IN  Walk(Tail(comps),
                  IF c = <<".", ".">> THEN depth - 1
                  ELSE IF c = <<>> \/ c = <<".">> THEN depth
                  ELSE depth + 1)

\* VIDEOS_DIR / p resolves outside VIDEOS_DIR: p is absolute, or its ".."
\* components climb above the root
Escapes(p) ==
    \/ (Len(p) >= 1 /\ p[1] = "/")
    \/ Walk(Components(p), 0) < 0

NoEntry == [name |-> <<>>, kind |-> "none", size |-> 0, stat_ok |-> FALSE,
            open_ok |-> FALSE, decodes |-> FALSE, parses |-> FALSE,
            doc |-> EmptyDoc, target |-> <<>>]

Entry(f, name) ==
    IF \E e \in f.root \cup f.other : e.name = name
    THEN CHOOSE e \in f.root \cup f.other : e.name = name
    ELSE NoEntry

\* What (VIDEOS_DIR / p).resolve() finds: whether it exists, whether the
\* resolved path is VIDEOS_DIR or below it, and the entry it names
PathInfo(f, p) ==
    LET link == Entry(f, p)
        resolved == IF link.kind = "inlink" THEN link.target ELSE p
        e == Entry(f, resolved)
    IN  [resolved |-> resolved,
         exists |-> e.kind \in {"file", "dir", "outlink"},
         inside |-> IF Contains(p, "/") THEN ~Escapes(p)
                    ELSE e.kind \in {"file", "dir"},
         is_file |-> e.kind \in {"file", "outlink"},
         entry |-> e]

\* Mutant of is_child_path: every path counts as inside
is_child_path_always(info) == TRUE

\* _is_child_path(child, VIDEOS_DIR.resolve()) of a resolved path
is_child_path(info) == info.inside

(***************************************************************************)
(* A filesystem access made by a handler: the operation, the path (as      *)
(* spelled below VIDEOS_DIR), whether the identifier it was built from had *)
(* passed validation, and whether the access is guarded by a containment   *)
(* check (its result is used only together with _is_child_path).           *)
(***************************************************************************)
Probe(op, p, validated, guarded) ==
    [op |-> op, path |-> p, validated |-> validated, guarded |-> guarded]

\* The loop of find_metadata_path from extension number i on: the sidecar
\* found (Absent for None) and the accesses made
RECURSIVE FindFrom(_, _, _)
FindFrom(f, stem, i) ==
    IF i > Len(VIDEO_EXTENSIONS) THEN [path |-> Absent, probes |-> <<>>]
    ELSE LET vname == stem \o VIDEO_EXTENSIONS[i]
             vp == PathInfo(f, vname)
             sname == vp.resolved \o JsonSuffix
             sidecar == PathInfo(f, sname)
             p1 == <<Probe("exists", vname, TRUE, TRUE)>>
             p2 == <<Probe("exists", sname, TRUE, TRUE)>>
         IN  IF vp.exists /\ is_child_path(vp)
             THEN IF sidecar.exists /\ is_child_path(sidecar)
                  THEN [path |-> Some(sidecar.resolved), probes |-> p1 \o p2]
                  ELSE LET rest == FindFrom(f, stem, i + 1)
                       IN  [path |-> rest.path, probes |-> p1 \o p2 \o rest.probes]
             ELSE LET rest == FindFrom(f, stem, i + 1)
                  IN  [path |-> rest.path, probes |-> p1 \o rest.probes]

find_metadata_path(f, stem) ==
    IF ValidStem(stem) THEN FindFrom(f, stem, 1)
    ELSE [path |-> Absent, probes |-> <<>>]

has_metadata_for(f, stem) == Present(find_metadata_path(f, stem).path)

(***************************************************************************)
(* JSON documents.  An optional member is <<>> when absent and <<v>> when   *)
(* present (for start_time and end_time, null counts as absent, as it does *)
(* for the code).  A document is                                           *)
(*   [kind, video_name, video_file, labels, shots, objects, text, faces]   *)
(* with kind "object" (a JSON object) or "array" (any other JSON value);   *)
(* an element of labels is                                                 *)
(*   [kind, description, entity, start_time, end_time, confidence,         *)
(*    category, categories, segments]                                      *)
(* with kind "dict" or "str" (a JSON string where an object is expected)   *)
(* and confidence [state, v], state "absent", "null" or "num".  Numbers    *)
(* are integers (confidences in tenths).                                   *)
(***************************************************************************)
\* The strings of the documents, in sorted() order
StringOrder == <<"", "Animal", "Car", "Dog", "Unknown", "Vehicle">>

Rank(str) == CHOOSE i \in 1..Len(StringOrder) : StringOrder[i] = str

\* sorted(S) of a set of strings
RECURSIVE Sorted(_)
Sorted(S) ==
    IF S = {} THEN <<>>
    ELSE LET m == CHOOSE x \in S : \A y \in S : Rank(x) <= Rank(y)
         IN  <<m>> \o Sorted(S \ {m})

Range(seq) == {seq[i] : i \in 1..Len(seq)}

\* Mutant of Truthy: empty entries are kept
Truthy_keep_empty(cats) == Range(cats)

\* {c for c in cats if c}
Truthy(cats) == {c \in Range(cats) : c # ""}

NoExc == <<>>
Exc(type, text, path) == <<[type |-> type, text |-> text, path |-> path]>>

\* item.get("description") or item.get("entity") or "Unknown"
Description(item) ==
    IF Present(item.description) /\ Get(item.description) # ""
    THEN Get(item.description)
    ELSE IF Present(item.entity) /\ Get(item.entity) # ""
         THEN Get(item.entity)
         ELSE "Unknown"

\* item.get("category") or item.get("categories") or []
Cats(item) ==
    IF Present(item.category) /\ Get(item.category) # <<>>
    THEN Get(item.category)
    ELSE IF Present(item.categories) /\ Get(item.categories) # <<>>
         THEN Get(item.categories)
         ELSE <<>>

GroupIndex(grouped, desc) ==
    IF \E i \in 1..Len(grouped) : grouped[i].description = desc
    THEN CHOOSE i \in 1..Len(grouped) : grouped[i].description = desc
    ELSE 0

\* Mutant of GroupStep: the confidence of a group is that of its latest record
GroupStep_latest_confidence(grouped, item) ==
    LET desc == Description(item)
        conf == item.confidence
        cats == Cats(item)
        at == GroupIndex(grouped, desc)
        fresh == [description |-> desc,
                  confidence |-> IF conf.state = "num" THEN conf.v ELSE 0,
                  categories |-> <<>>, segments |-> <<>>]
        g0 == IF at = 0 THEN fresh ELSE grouped[at]
        g1 == [g0 EXCEPT !.confidence = IF conf.state = "num" THEN conf.v ELSE 0]
        g2 == IF cats # <<>>
              THEN [g1 EXCEPT !.categories = Sorted(Range(@) \cup Truthy(cats))]
              ELSE g1
        g3 == IF Present(item.start_time) /\ Present(item.end_time)
              THEN [g2 EXCEPT !.segments = Append(@,
                       [start |-> Get(item.start_time), end |-> Get(item.end_time),
                        confidence |-> IF conf.state = "num" THEN conf.v ELSE 0])]
              ELSE g2
    IN  IF item.kind # "dict"
        THEN [groups |-> grouped,
              exc |-> Exc("AttributeError", "'str' object has no attribute 'get'", Absent)]
        ELSE IF conf.state = "null"
        THEN [groups |-> grouped,
              exc |-> Exc("TypeError", "'>' not supported between instances of 'NoneType' and 'NoneType'", Absent)]
        ELSE [groups |-> IF at = 0 THEN Append(grouped, g3)
                         ELSE [grouped EXCEPT ![at] = g3],
              exc |-> NoExc]

\* One pass of the loop body (lines 234-252) over item, on the groups so far.
\* The confidence of a group is compared with max(): a null confidence makes
\* the comparison raise TypeError.
GroupStep(grouped, item) ==
    LET desc == Description(item)
        conf == item.confidence
        cats == Cats(item)
        at == GroupIndex(grouped, desc)
        fresh == [description |-> desc,
                  confidence |-> IF conf.state = "num" THEN conf.v ELSE 0,
                  categories |-> <<>>, segments |-> <<>>]
        g0 == IF at = 0 THEN fresh ELSE grouped[at]
        g1 == [g0 EXCEPT !.confidence = IF conf.state = "num" /\ conf.v > @
                                        THEN conf.v ELSE @]
        g2 == IF cats # <<>>
              THEN [g1 EXCEPT !.categories = Sorted(Range(@) \cup Truthy(cats))]
              ELSE g1
        g3 == IF Present(item.start_time) /\ Present(item.end_time)
              THEN [g2 EXCEPT !.segments = Append(@,
                       [start |-> Get(item.start_time), end |-> Get(item.end_time),
                        confidence |-> IF conf.state = "num" THEN conf.v ELSE 0])]
              ELSE g2
    IN  IF item.kind # "dict"
        THEN [groups |-> grouped,
              exc |-> Exc("AttributeError", "'str' object has no attribute 'get'", Absent)]
        ELSE IF conf.state = "null"
        THEN [groups |-> grouped,
              exc |-> Exc("TypeError", "'>' not supported between instances of 'NoneType' and 'NoneType'", Absent)]
        ELSE [groups |-> IF at = 0 THEN Append(grouped, g3)
                         ELSE [grouped EXCEPT ![at] = g3],
              exc |-> NoExc]

\* The loop of lines 233-252 over the items from number i on
RECURSIVE GroupFrom(_, _, _)
GroupFrom(items, i, grouped) ==
    IF i > Len(items) THEN [groups |-> grouped, exc |-> NoExc]
    ELSE LET step == GroupStep(grouped, items[i])
         IN  IF step.exc # NoExc THEN step
             ELSE GroupFrom(items, i + 1, step.groups)

\* Mutant of AlreadyCanonical: no document is taken as already grouped
AlreadyCanonical_never(raw) == FALSE

\* The test of line 220: a member labels, one of whose elements is an object
\* with a member segments
AlreadyCanonical(raw) ==
    /\ raw.kind = "object"
    /\ Present(raw.labels)
    /\ \E i \in 1..Len(Get(raw.labels)) :
          /\ Get(raw.labels)[i].kind = "dict"
          /\ Present(Get(raw.labels)[i].segments)

\* raw.get("video_name") or raw.get("video_file", video_name)
VideoNameOf(raw, video_name) ==
    IF Present(raw.video_name) /\ Get(raw.video_name) # <<>>
    THEN Get(raw.video_name)
    ELSE IF Present(raw.video_file) THEN Get(raw.video_file) ELSE video_name

OrEmpty(o) == IF Present(o) THEN Get(o) ELSE <<>>

\* A response body of GET /metadata: the members a client receives
Body(video_name, labels, shots, objects, text, faces, message) ==
    [video_name |-> video_name, labels |-> labels, shots |-> shots,
     objects |-> objects, text |-> text, faces |-> faces, message |-> message]

NoMessage == ""
PlaceholderMessage == "No analysis data available. This is sample structure."

\* Lines 219-254 on a parsed document: the body returned, or the exception
Normalize(raw, video_name) ==
    IF raw.kind # "object"
    THEN [kind |-> "raised", body |-> Absent,
          exc |-> Exc("AttributeError", "'list' object has no attribute 'get'", Absent)]
    ELSE IF AlreadyCanonical(raw)
    THEN [kind |-> "passthrough",
          body |-> Some(Body(raw.video_name, raw.labels, raw.shots, raw.objects,
                             raw.text, raw.faces, NoMessage)),
          exc |-> NoExc]
    ELSE LET g == GroupFrom(OrEmpty(raw.labels), 1, <<>>)
         IN  IF g.exc # NoExc
             THEN [kind |-> "raised", body |-> Absent, exc |-> g.exc]
             ELSE [kind |-> "transformed",
                   body |-> Some(Body(Some(VideoNameOf(raw, video_name)),
                                      Some(g.groups),
                                      Some(OrEmpty(raw.shots)), Some(OrEmpty(raw.objects)),
                                      Some(OrEmpty(raw.text)), Some(OrEmpty(raw.faces)),
                                      NoMessage)),
                   exc |-> NoExc]

(***************************************************************************)
(* Responses.  kind names the branch that produced the response; exc is    *)
(* the exception whose str() the detail embeds (NoExc when it embeds       *)
(* none); body is the metadata body; videos the VideoEntry records.        *)
(***************************************************************************)
Response(status, kind, detail, exc, body, videos) ==
    [status |-> status, kind |-> kind, detail |-> detail, exc |-> exc,
     body |-> body, videos |-> videos]

NoResponse == Response(0, "none", "", NoExc, Absent, {})

Result(resp, probes) == [resp |-> resp, probes |-> probes]

VideoInfo(name, filename, size, has_metadata) ==
    [name |-> name, filename |-> filename, size |-> size,
     has_metadata |-> has_metadata]

\* Mutant of get_videos: zero-byte files are listed
get_videos_any_size(f) ==
    Result(Response(200, "videos", "", NoExc, Absent,
        {VideoInfo(Stem(e.name), e.name, PathInfo(f, e.name).entry.size,
                   has_metadata_for(f, Stem(e.name))) :
            e \in {x \in f.root :
                    /\ PathInfo(f, x.name).is_file
                    /\ InList(LowerStr(Suffix(x.name)), VIDEO_EXTENSIONS)
                    /\ PathInfo(f, x.name).entry.stat_ok}}),
        <<>>)

\* GET /videos
get_videos(f) ==
    Result(Response(200, "videos", "", NoExc, Absent,
        {VideoInfo(Stem(e.name), e.name, PathInfo(f, e.name).entry.size,
                   has_metadata_for(f, Stem(e.name))) :
            e \in {x \in f.root :
                    /\ PathInfo(f, x.name).is_file
                    /\ InList(LowerStr(Suffix(x.name)), VIDEO_EXTENSIONS)
                    /\ PathInfo(f, x.name).entry.stat_ok
                    /\ ~(PathInfo(f, x.name).entry.size <= 0)}}),
        <<>>)

\* The loop of get_video from extension number i on
RECURSIVE VideoFrom(_, _, _)
VideoFrom(f, video_name, i) ==
    IF i > Len(VIDEO_EXTENSIONS)
    THEN Result(Response(404, "not_found", "Video not found", NoExc, Absent, {}), <<>>)
    ELSE LET p == video_name \o VIDEO_EXTENSIONS[i]
             info == PathInfo(f, p)
             probe == Probe("exists", p, FALSE, FALSE)
         IN  IF info.exists
             THEN IF ~info.entry.stat_ok
                  THEN Result(Response(500, "crash", "Internal Server Error",
                                       NoExc, Absent, {}),
                              <<probe, Probe("stat", p, FALSE, FALSE)>>)
                  ELSE LET found == find_metadata_path(f, video_name)
                       IN  Result(Response(200, "video", "", NoExc, Absent,
                                      {VideoInfo(video_name, FinalName(p),
                                                 info.entry.size, Present(found.path))}),
                                  <<probe, Probe("stat", p, FALSE, FALSE)>> \o found.probes)
             ELSE LET rest == VideoFrom(f, video_name, i + 1)
                  IN  Result(rest.resp, <<probe>> \o rest.probes)

\* GET /video/{video_name}
get_video(f, video_name) == VideoFrom(f, video_name, 1)

\* {v.strip() for v in allowed_env.split(",") if v.strip()}
AllowedSet(env) == {Strip(env.items[i]) : i \in 1..Len(env.items)} \ {<<>>}

\* Lines 216-258: open and parse the artifact, then normalize it
ReadMetadata(f, path, video_name) ==
    LET e == Entry(f, path)
        opened == Probe("open", path, TRUE, TRUE)
    IN  IF e.kind = "dir"
        THEN Result(Response(500, "read_error", "Error reading metadata: ",
                             Exc("IsADirectoryError", "[Errno 21] Is a directory: ", Some(path)),
                             Absent, {}), <<opened>>)
        ELSE IF ~e.open_ok
        THEN Result(Response(500, "read_error", "Error reading metadata: ",
                             Exc("PermissionError", "[Errno 13] Permission denied: ", Some(path)),
                             Absent, {}), <<opened>>)
        ELSE IF ~e.decodes
        THEN Result(Response(500, "read_error", "Error reading metadata: ",
                             Exc("UnicodeDecodeError", "'utf-8' codec can't decode byte", Absent),
                             Absent, {}), <<opened>>)
        ELSE IF ~e.parses
        THEN Result(Response(500, "corrupt", "Invalid metadata file", NoExc, Absent, {}),
                    <<opened>>)
        ELSE LET n == Normalize(e.doc, video_name)
             IN  IF n.kind = "raised"
                 THEN Result(Response(500, "read_error", "Error reading metadata: ",
                                      n.exc, Absent, {}), <<opened>>)
                 ELSE Result(Response(200, n.kind, "", NoExc, n.body, {}), <<opened>>)

Placeholder(video_name) ==
    Response(200, "placeholder", "", NoExc,
             Some(Body(Some(video_name), Some(<<>>), Some(<<>>), Some(<<>>),
                       Some(<<>>), Some(<<>>), PlaceholderMessage)), {})

\* What get_metadata does once the identifier is validated and authorized
Lookup(f, sanitized) ==
    LET found == find_metadata_path(f, sanitized)
    IN  IF ~Present(found.path)
        THEN Result(Placeholder(sanitized), found.probes)
        ELSE LET read == ReadMetadata(f, Get(found.path), sanitized)
             IN  Result(read.resp,
                        found.probes
                        \o <<Probe("exists", Get(found.path), TRUE, TRUE)>>
                        \o read.probes)

\* Mutant of get_metadata: the identifier goes to the lookup unvalidated
get_metadata_unvalidated(f, env, video_name) ==
    LET sanitized == Strip(video_name)
    IN  IF env.set /\ sanitized \notin AllowedSet(env)
        THEN Result(Response(403, "forbidden", "Forbidden", NoExc, Absent, {}), <<>>)
        ELSE Lookup(f, sanitized)

\* Mutant of get_metadata: the allow-list is consulted before validation
get_metadata_auth_first(f, env, video_name) ==
    LET sanitized == Strip(video_name)
    IN  IF env.set /\ sanitized \notin AllowedSet(env)
        THEN Result(Response(403, "forbidden", "Forbidden", NoExc, Absent, {}), <<>>)
        ELSE IF HasSeparatorOrNul(sanitized)
                \/ (~UUIDParses(sanitized) /\ ~RegexMatch(sanitized))
        THEN Result(Response(400, "invalid", "Invalid video name",
                             NoExc, Absent, {}), <<>>)
        ELSE Lookup(f, sanitized)

\* Mutant of get_metadata: a missing artifact is answered 404
get_metadata_404(f, env, video_name) ==
    LET sanitized == Strip(video_name)
    IN  IF HasSeparatorOrNul(sanitized)
           \/ (~UUIDParses(sanitized) /\ ~RegexMatch(sanitized))
        THEN Result(Response(400, "invalid", "Invalid video name",
                             NoExc, Absent, {}), <<>>)
        ELSE IF env.set /\ sanitized \notin AllowedSet(env)
        THEN Result(Response(403, "forbidden", "Forbidden", NoExc, Absent, {}), <<>>)
        ELSE IF ~Present(find_metadata_path(f, sanitized).path)
        THEN Result(Response(404, "not_found", "Metadata not found",
                             NoExc, Absent, {}), <<>>)
        ELSE Lookup(f, sanitized)

\* GET /metadata/{video_name}
get_metadata(f, env, video_name) ==
    LET sanitized == Strip(video_name)
        is_uuid == UUIDParses(sanitized)
        invalid == Result(Response(400, "invalid", "Invalid video name",
                                   NoExc, Absent, {}), <<>>)
    IN  IF HasSeparatorOrNul(sanitized) THEN invalid
        ELSE IF ~is_uuid /\ ~RegexMatch(sanitized) THEN invalid
        ELSE IF env.set /\ sanitized \notin AllowedSet(env)
        THEN Result(Response(403, "forbidden", "Forbidden", NoExc, Absent, {}), <<>>)
        ELSE Lookup(f, sanitized)

\* GET /
root == Result(Response(200, "root", "RainLabel Video Analysis API",
                        NoExc, Absent, {}), <<>>)

(***************************************************************************)
(* Requests.  src is where a request comes from: the entries of its        *)
(* x-forwarded-for header (none when the header is absent), each already   *)
(* stripped, and the peer address (None when the transport gives none).    *)
(* req is what it asks: the endpoint, the identifier in the path, whether  *)
(* the content-type names multipart/form-data, and the content-length      *)
(* header (valid is FALSE when int() rejects it; an absent header is "0"). *)
(***************************************************************************)
Source(xff, host) == [xff |-> xff, host |-> host]

Request(endpoint, id, multipart, clen_valid, clen) ==
    [endpoint |-> endpoint, id |-> id, multipart |-> multipart,
     clen |-> [valid |-> clen_valid, n |-> clen]]

\* Lines 39-40: the first forwarded-for entry, else the peer, else "unknown"
ClientIp(src) ==
    LET first == IF src.xff = <<>> THEN "" ELSE src.xff[1]
    IN  IF first # "" THEN first
        ELSE IF src.host # None THEN src.host
        ELSE "unknown"

\* Mutant of Prune: a timestamp exactly at the cutoff is dropped too
RECURSIVE Prune_inclusive(_, _)
Prune_inclusive(window, cutoff) ==
    IF window # <<>> /\ window[1] <= cutoff
    THEN Prune_inclusive(Tail(window), cutoff)
    ELSE window

\* Lines 43-44: popleft while the oldest timestamp is before the cutoff
RECURSIVE Prune(_, _)
Prune(window, cutoff) ==
    IF window # <<>> /\ window[1] < cutoff
    THEN Prune(Tail(window), cutoff)
    ELSE window

\* Lines 50-57: the multipart size guard
TooLarge(req) ==
    LET content_length == IF req.clen.valid THEN req.clen.n ELSE 0
    IN  /\ req.multipart
        /\ content_length # 0
        /\ content_length > MAX_MULTIPART_SIZE

\* Mutant of limits_middleware: the size guard runs before the rate limit
limits_middleware_size_first(window, t, req) ==
    LET pruned == Prune(window, t - WindowSeconds)
    IN  IF TooLarge(req)
        THEN [window |-> pruned, outcome |-> "too_large"]
        ELSE IF Len(pruned) >= RateLimit
        THEN [window |-> pruned, outcome |-> "rate_limited"]
        ELSE [window |-> Append(pruned, t), outcome |-> "passed"]

\* Mutant of limits_middleware: the count checked misses the latest append
limits_middleware_stale_count(window, t, req) ==
    LET pruned == Prune(window, t - WindowSeconds)
    IN  IF Len(pruned) - 1 >= RateLimit
        THEN [window |-> pruned, outcome |-> "rate_limited"]
        ELSE IF TooLarge(req)
        THEN [window |-> Append(pruned, t), outcome |-> "too_large"]
        ELSE [window |-> Append(pruned, t), outcome |-> "passed"]

\* Lines 38-58 on the window of the request's client: the window left
\* behind and what becomes of the request
limits_middleware(window, t, req) ==
    LET pruned == Prune(window, t - WindowSeconds)
    IN  IF Len(pruned) >= RateLimit
        THEN [window |-> pruned, outcome |-> "rate_limited"]
        ELSE IF TooLarge(req)
        THEN [window |-> Append(pruned, t), outcome |-> "too_large"]
        ELSE [window |-> Append(pruned, t), outcome |-> "passed"]

(***************************************************************************)
(* The inputs of the model.                                                *)
(***************************************************************************)
Sources == {Source(<<"10.0.0.1", "10.0.0.7">>, "10.0.0.9"),
            Source(<<>>, "10.0.0.9")}

Identities == {ClientIp(src) : src \in Sources} \cup {"unknown"}

Conns == {"k1", "k2"}

Delays == {60, 61}

Endpoints == {"root", "videos", "video", "metadata"}

Plain(endpoint, id) == Request(endpoint, id, FALSE, TRUE, 0)

Idle == [stage |-> "idle", src |-> Source(<<>>, None),
         req |-> Plain("root", <<>>),
         resp |-> NoResponse, probes |-> <<>>]

(***************************************************************************)
(* State.                                                                  *)
(*   now          time.monotonic()                                         *)
(*   ip_windows   _ip_windows: per client identity, the timestamps         *)
(*                recorded (an identity never seen has the empty window)   *)
(*   fs           the filesystem around VIDEOS_DIR                         *)
(*   allowed_env  RAINLABEL_ALLOWED_VIDEOS: [set, items], items the        *)
(*                comma-separated entries                                  *)
(*   conn         per connection, the exchange on it: idle, admitted by    *)
(*                the middleware (awaiting call_next), or responded (the   *)
(*                response is on its way to the client)                    *)
(*   history      per client identity, the arrival times of the requests   *)
(*                of it that were not rate limited                         *)
(***************************************************************************)
Tick(d) ==
    /\ now + d <= MaxTime
    /\ now' = now + d
    /\ UNCHANGED <<ip_windows, fs, allowed_env, conn, history>>

\* Mutant of Middleware: the lookup has run for a request that is then
\* answered as rate limited
Middleware_late_throttle(k, src, req) ==
    /\ conn[k].stage = "idle"
    /\ LET client_ip == ClientIp(src)
           m == limits_middleware(ip_windows[client_ip], now, req)
           resp == CASE m.outcome = "rate_limited" ->
                          Response(429, "rate_limited", "Too Many Requests",
                                   NoExc, Absent, {})
                     [] m.outcome = "too_large" ->
                          Response(413, "too_large", "Payload too large",
                                   NoExc, Absent, {})
                     [] OTHER -> NoResponse
       IN  /\ ip_windows' = [ip_windows EXCEPT ![client_ip] = m.window]
           /\ conn' = [conn EXCEPT ![k] =
                         [stage |-> IF m.outcome = "passed" THEN "admitted"
                                    ELSE "responded",
                          src |-> src, req |-> req,
                          resp |-> resp,
                          probes |-> IF m.outcome = "rate_limited"
                                     THEN get_metadata(fs, allowed_env, req.id).probes
                                     ELSE <<>>]]
           /\ history' = IF m.outcome = "rate_limited" THEN history
                         ELSE [history EXCEPT ![client_ip] = Append(@, now)]
    /\ UNCHANGED <<now, fs, allowed_env>>

\* _limits_middleware up to its await of call_next
Middleware(k, src, req) ==
    /\ conn[k].stage = "idle"
    /\ LET client_ip == ClientIp(src)
           m == limits_middleware(ip_windows[client_ip], now, req)
           resp == CASE m.outcome = "rate_limited" ->
                          Response(429, "rate_limited", "Too Many Requests",
                                   NoExc, Absent, {})
                     [] m.outcome = "too_large" ->
                          Response(413, "too_large", "Payload too large",
                                   NoExc, Absent, {})
                     [] OTHER -> NoResponse
       IN  /\ ip_windows' = [ip_windows EXCEPT ![client_ip] = m.window]
           /\ conn' = [conn EXCEPT ![k] =
                         [stage |-> IF m.outcome = "passed" THEN "admitted"
                                    ELSE "responded",
                          src |-> src, req |-> req,
                          resp |-> resp, probes |-> <<>>]]
           /\ history' = IF m.outcome = "rate_limited" THEN history
                         ELSE [history EXCEPT ![client_ip] = Append(@, now)]
    /\ UNCHANGED <<now, fs, allowed_env>>

\* call_next: the endpoint of an admitted request runs and answers
Respond(k, result) ==
    /\ conn' = [conn EXCEPT ![k].stage = "responded",
                            ![k].resp = result.resp,
                            ![k].probes = result.probes]
    /\ UNCHANGED <<now, ip_windows, fs, allowed_env, history>>

Root(k) ==
    /\ conn[k].stage = "admitted"
    /\ conn[k].req.endpoint = "root"
    /\ Respond(k, root)

GetVideos(k) ==
    /\ conn[k].stage = "admitted"
    /\ conn[k].req.endpoint = "videos"
    /\ Respond(k, get_videos(fs))

GetVideo(k) ==
    /\ conn[k].stage = "admitted"
    /\ conn[k].req.endpoint = "video"
    /\ Respond(k, get_video(fs, conn[k].req.id))

GetMetadata(k) ==
    /\ conn[k].stage = "admitted"
    /\ conn[k].req.endpoint = "metadata"
    /\ Respond(k, get_metadata(fs, allowed_env, conn[k].req.id))

\* The response has been sent: the connection is free for the next request
Close(k) ==
    /\ conn[k].stage = "responded"
    /\ conn' = [conn EXCEPT ![k] = Idle]
    /\ UNCHANGED <<now, ip_windows, fs, allowed_env, history>>

(***************************************************************************)
(* Identifiers a client may send: every string over Alphabet of at most    *)
(* MaxLen characters, and the strings below.                               *)
(***************************************************************************)
Alphabet == {"a", "/", "\\", NUL, " ", "{", ":", "."}

StringsUpTo(n) == UNION {[1..m -> Alphabet] : m \in 0..n}

Uuid == <<"1","2","3","4","5","6","7","8","-","1","2","3","4","-",
          "5","6","7","8","-","1","2","3","4","-",
          "5","6","7","8","1","2","3","4","5","6","7","8">>
UuidBraced == <<"{">> \o Uuid \o <<"}">>
UuidUrn == <<"u","r","n",":","u","u","i","d",":">> \o Uuid
EtcPasswd == <<".",".","/","e","t","c","/","p","a","s","s","w","d">>
DotDotX == <<".",".","/","x">>
Clip1 == <<"c","l","i","p","1">>

Identifiers ==
    StringsUpTo(MaxLen)
    \cup {Uuid, UuidBraced, UuidUrn, EtcPasswd, DotDotX, Clip1,
          <<"a">>, <<"b">>, <<" ", "a">>, <<"a", " ">>, <<"a", "\n">>,
          <<"a", " ", "b">>, <<"a", "_", "-", "Z", "9">>, <<"a", "/", "b">>,
          <<"a", NUL>>, <<"A">>}

(***************************************************************************)
(* Documents and directory layouts.                                        *)
(***************************************************************************)
Item(description, start_time, end_time, confidence, category) ==
    [kind |-> "dict", description |-> description, entity |-> Absent,
     start_time |-> start_time, end_time |-> end_time,
     confidence |-> confidence, category |-> category,
     categories |-> Absent, segments |-> Absent]

Num(v) == [state |-> "num", v |-> v]

\* The two flat "Car" records of the analyzer's output schema
FlatDoc ==
    [EmptyDoc EXCEPT
       !.labels = Some(<<Item(Some("Car"), Some(1), Some(2), Num(8), Absent),
                         Item(Some("Car"), Some(5), Some(6), Num(9),
                              Some(<<"Vehicle">>))>>),
       !.shots = Some(<<"shot">>)]

\* A document already in the grouped schema
CanonicalDoc ==
    [EmptyDoc EXCEPT
       !.video_name = Some(<<"v">>),
       !.labels = Some(<<[Item(Some("Dog"), Absent, Absent, Num(7), Absent)
                            EXCEPT !.segments = Some(<<[start |-> 0, end |-> 3,
                                                        confidence |-> 7]>>)]>>)]

\* A document whose labels hold a string where an object is expected
StrLabelDoc ==
    [EmptyDoc EXCEPT
       !.labels = Some(<<[Item(Absent, Absent, Absent, Num(0), Absent)
                            EXCEPT !.kind = "str"]>>)]

File(name, size) ==
    [name |-> name, kind |-> "file", size |-> size, stat_ok |-> TRUE,
     open_ok |-> TRUE, decodes |-> TRUE, parses |-> FALSE, doc |-> EmptyDoc,
     target |-> <<>>]

Json(name, doc) == [File(name, 9) EXCEPT !.parses = TRUE, !.doc = doc]

Link(name, target) == [File(name, 0) EXCEPT !.kind = "inlink", !.target = target]

\* fs.metadata and fs.labels: the names in a metadata root and a labels root
\* beside VIDEOS_DIR
Layout(entries, other, metadata, labels) ==
    [root |-> entries, other |-> other, metadata |-> metadata, labels |-> labels]

A == <<"a">>

Layouts ==
    { Layout({}, {}, {}, {}),
      \* a video and its sidecar
      Layout({File(A \o Mp4, 5), Json(A \o Mp4 \o JsonSuffix, FlatDoc)}, {}, {}, {}),
      \* the first extension has no sidecar, a later one has
      Layout({File(A \o Mp4, 5), File(A \o Mov, 5),
              Json(A \o Mov \o JsonSuffix, CanonicalDoc),
              File(A \o Webm, 5), Json(A \o Webm \o JsonSuffix, FlatDoc)}, {}, {}, {}),
      \* a sidecar whose text is not JSON, one whose bytes are not text
      Layout({File(A \o Mp4, 5), File(A \o Mp4 \o JsonSuffix, 3),
              File(<<"b">> \o Mp4, 5),
              [File(<<"b">> \o Mp4 \o JsonSuffix, 3) EXCEPT !.decodes = FALSE]},
             {}, {}, {}),
      \* a sidecar that is a directory, one that cannot be opened
      Layout({File(A \o Mp4, 5),
              [File(A \o Mp4 \o JsonSuffix, 0) EXCEPT !.kind = "dir"],
              File(<<"b">> \o Mp4, 5),
              [Json(<<"b">> \o Mp4 \o JsonSuffix, FlatDoc) EXCEPT !.open_ok = FALSE]},
             {}, {}, {}),
      \* documents the transform raises on
      Layout({File(A \o Mp4, 5), Json(A \o Mp4 \o JsonSuffix, StrLabelDoc),
              File(<<"b">> \o Mp4, 5),
              Json(<<"b">> \o Mp4 \o JsonSuffix, [EmptyDoc EXCEPT !.kind = "array"])},
             {}, {}, {}),
      \* symlinks leaving the root: a video, and the sidecar of a video
      Layout({[File(A \o Mp4, 5) EXCEPT !.kind = "outlink"],
              Json(A \o Mp4 \o JsonSuffix, FlatDoc),
              File(<<"b">> \o Mkv, 5),
              [Json(<<"b">> \o Mkv \o JsonSuffix, FlatDoc) EXCEPT !.kind = "outlink"],
              [File(Clip1 \o Avi, 5) EXCEPT !.kind = "dangling"]}, {}, {}, {}),
      \* symlinks inside the root: a video, and the sidecar of a video
      Layout({Link(A \o Mp4, <<"b">> \o Mkv),
              Json(A \o Mp4 \o JsonSuffix, CanonicalDoc),
              File(<<"b">> \o Mkv, 5),
              Json(<<"b">> \o Mkv \o JsonSuffix, FlatDoc),
              File(Clip1 \o Avi, 6),
              Link(Clip1 \o Avi \o JsonSuffix, <<"b">> \o Mkv \o JsonSuffix)},
             {}, {}, {}),
      \* a name with a leading blank beside the name without it
      Layout({File(<<" ", "a">> \o Mp4, 5), File(A \o Mp4, 5),
              Json(A \o Mp4 \o JsonSuffix, FlatDoc)}, {}, {}, {}),
      \* a zero-byte video, an upper-case extension, an entry that vanishes,
      \* a directory and a file that is no video
      Layout({File(Clip1 \o Mp4, 0), File(A \o <<".", "M", "P", "4">>, 5),
              [File(<<"b">> \o Mp4, 5) EXCEPT !.stat_ok = FALSE],
              [File(<<"d">> \o Mp4, 0) EXCEPT !.kind = "dir"],
              File(<<"n", ".", "t", "x", "t">>, 5),
              File(<<"A">> \o Webm, 6)}, {}, {}, {}),
      \* a file beside the root, and one in a directory below it
      Layout({File(A \o Avi, 5)},
             {File(DotDotX \o Mp4, 4), File(<<"a", "/", "b">> \o Mp4, 4)}, {}, {}),
      \* a video named by a braced UUID, with its sidecar
      Layout({File(UuidBraced \o Mp4, 5),
              Json(UuidBraced \o Mp4 \o JsonSuffix, CanonicalDoc),
              File(Uuid \o Mkv, 5), Json(Uuid \o Mkv \o JsonSuffix, FlatDoc)},
             {}, {}, {}),
      \* artifacts in a metadata root and a labels root only
      Layout({File(A \o Mp4, 5)}, {}, {A \o JsonSuffix}, {}),
      Layout({}, {}, {}, {A \o JsonSuffix, A \o <<"_", "1">> \o JsonSuffix}) }

NoAllowList == [set |-> FALSE, items |-> <<>>]
AllowList(items) == [set |-> TRUE, items |-> items]

AllowedEnvs == {NoAllowList,
                AllowList(<< <<" ", "a", " ">>, <<>> >>),
                AllowList(<< <<"b">>, Uuid >>)}

(***************************************************************************)
(* Spec: one client on one connection, the clock standing still, over      *)
(* every layout, allow-list and identifier.                                *)
(***************************************************************************)
Requests ==
    {Plain("root", <<>>), Plain("videos", <<>>)}
    \cup {Plain(e, id) : e \in {"video", "metadata"}, id \in Identifiers}

Init ==
    /\ now = 0
    /\ ip_windows = [c \in Identities |-> <<>>]
    /\ fs \in Layouts
    /\ allowed_env \in AllowedEnvs
    /\ conn = [k \in Conns |-> Idle]
    /\ history = [c \in Identities |-> <<>>]

Next ==
    \/ \E req \in Requests : Middleware("k1", Source(<<>>, "10.0.0.9"), req)
    \/ Root("k1")
    \/ GetVideos("k1")
    \/ GetVideo("k1")
    \/ GetMetadata("k1")
    \/ Close("k1")

Spec == Init /\ [][Next]_vars

(***************************************************************************)
(* SpecThrottle: several clients on several connections as time passes,    *)
(* over one layout.                                                        *)
(***************************************************************************)
ThrottleRequests ==
    {Plain("videos", <<>>),
     Request("metadata", A, TRUE, TRUE, MAX_MULTIPART_SIZE),
     Request("metadata", A, TRUE, TRUE, MAX_MULTIPART_SIZE + 1)}

InitThrottle ==
    /\ now = 0
    /\ ip_windows = [c \in Identities |-> <<>>]
    /\ fs = Layout({File(A \o Mp4, 5), Json(A \o Mp4 \o JsonSuffix, FlatDoc)},
                   {}, {}, {})
    /\ allowed_env = NoAllowList
    /\ conn = [k \in Conns |-> Idle]
    /\ history = [c \in Identities |-> <<>>]

NextThrottle ==
    \/ \E d \in Delays : Tick(d)
    \/ \E k \in Conns, src \in Sources, req \in ThrottleRequests :
          Middleware(k, src, req)
    \/ \E k \in Conns : GetVideos(k)
    \/ \E k \in Conns : GetMetadata(k)
    \/ \E k \in Conns : Close(k)

SpecThrottle == InitThrottle /\ [][NextThrottle]_vars

(***************************************************************************)
(* SpecNormalize: one client fetching the metadata of video "a", over      *)
(* every stored document: the flat documents with at most MaxItems label   *)
(* records, and documents in the grouped schema.                           *)
(***************************************************************************)
NoConfidence == [state |-> "absent", v |-> 0]

\* Records of the flat schema: with and without timing, confidence and
\* categories, described by description, by entity, or by neither
LabelRecords ==
    { Item(Some("Car"), Some(1), Some(2), Num(8), Absent),
      Item(Some("Car"), Some(5), Some(6), Num(9), Some(<<"Vehicle">>)),
      Item(Some("Car"), Some(3), Absent, NoConfidence, Some(<<"Animal", "">>)),
      [Item(Absent, Absent, Absent, Num(7), Absent)
         EXCEPT !.entity = Some("Dog"), !.categories = Some(<<"Animal">>)],
      [Item(Some("Dog"), Some(4), Some(7), Num(9), Some(<<"Vehicle">>))
         EXCEPT !.categories = Some(<<"Animal">>)],
      Item(Some(""), Some(0), Some(0), Num(0), Some(<<>>)) }

LabelLists == UNION {[1..n -> LabelRecords] : n \in 0..MaxItems}

Segment(start, end, confidence) ==
    [start |-> start, end |-> end, confidence |-> confidence]

\* An element of labels in the grouped schema
Group(description, confidence, categories, segments) ==
    [Item(Some(description), Absent, Absent, Num(confidence), Absent)
       EXCEPT !.categories = Some(categories), !.segments = Some(segments)]

FlatDocs ==
    {[EmptyDoc EXCEPT !.labels = Some(l)] : l \in LabelLists}
    \cup {[EmptyDoc EXCEPT !.labels = Some(l), !.video_name = Some(<<"v">>),
                           !.shots = Some(<<"shot">>)] : l \in LabelLists}
    \cup {[EmptyDoc EXCEPT !.labels = Some(l), !.video_file = Some(<<"f">>),
                           !.faces = Some(<<>>)] : l \in LabelLists}
    \cup {EmptyDoc}

\* Documents in the grouped schema: complete, without video_name and shots,
\* with one description twice, and with a flat record among the groups
GroupedDocs ==
    { [EmptyDoc EXCEPT
         !.video_name = Some(<<"v">>),
         !.labels = Some(<<Group("Dog", 7, <<"Animal">>, <<Segment(0, 3, 7)>>)>>),
         !.shots = Some(<<"shot">>), !.objects = Some(<<>>),
         !.text = Some(<<>>), !.faces = Some(<<>>)],
      CanonicalDoc,
      [EmptyDoc EXCEPT
         !.labels = Some(<<Group("Car", 8, <<>>, <<Segment(1, 2, 8)>>),
                           Group("Car", 9, <<"Vehicle">>, <<Segment(5, 6, 9)>>)>>)],
      [EmptyDoc EXCEPT
         !.labels = Some(<<Group("Dog", 7, <<>>, <<>>),
                           Item(Some("Car"), Some(1), Some(2), Num(8), Absent),
                           Item(Some("Car"), Some(5), Some(6), Num(9), Absent)>>)] }

Docs == FlatDocs \cup GroupedDocs

InitNormalize ==
    /\ now = 0
    /\ ip_windows = [c \in Identities |-> <<>>]
    /\ \E doc \in Docs :
          fs = Layout({File(A \o Mp4, 5), Json(A \o Mp4 \o JsonSuffix, doc)},
                      {}, {}, {})
    /\ allowed_env = NoAllowList
    /\ conn = [k \in Conns |-> Idle]
    /\ history = [c \in Identities |-> <<>>]

NextNormalize ==
    \/ Middleware("k1", Source(<<>>, "10.0.0.9"), Plain("metadata", A))
    \/ GetMetadata("k1")
    \/ Close("k1")

SpecNormalize == InitNormalize /\ [][NextNormalize]_vars

(***************************************************************************)
(* Claims.                                                                 *)
(***************************************************************************)
\* The requests of client c that were not rate limited and arrived within
\* the 60 seconds before now
Recent(c) == {i \in 1..Len(history[c]) : now - history[c][i] <= 60}

\* The middleware takes the next request on connection k in this step
Arrives(k) == conn[k].stage = "idle" /\ conn'[k].stage # "idle"

\* The request declares a multipart body longer than the ceiling
Oversize(req) ==
    req.multipart /\ req.clen.valid /\ req.clen.n > 50 * 1024 * 1024

\* C1: for a limit of RateLimit requests per 60 seconds and every client
\* identity: a request that arrives when RateLimit requests of the identity
\* were admitted within the last 60 seconds is answered 429; a request that
\* arrives when 61 seconds or more have passed since every admitted request
\* of the identity is not answered 429.
C1_RateLimit ==
    [][\A k \in Conns :
          Arrives(k) =>
             LET c == ClientIp(conn'[k].src)
             IN  /\ Cardinality(Recent(c)) >= RateLimit
                       => conn'[k].resp.status = 429
                 /\ (\A i \in 1..Len(history[c]) : now - history[c][i] >= 61)
                       => conn'[k].resp.status # 429]_vars

\* C1 witness: one identity has a request rejected with 429 on one connection
\* (its window was full) and, 61 seconds after the requests that filled the
\* window, a request admitted on the other
C1_Witness ==
    \E k1, k2 \in Conns :
       LET c == ClientIp(conn[k1].src)
       IN  /\ conn[k1].stage = "responded"
           /\ conn[k1].resp.status = 429
           /\ conn[k2].stage = "admitted"
           /\ ClientIp(conn[k2].src) = c
           /\ Len(history[c]) = RateLimit + 1
           /\ history[c][RateLimit + 1] = now
           /\ \A i \in 1..RateLimit : now - history[c][i] >= 61

\* C2 (as amended): a multipart request whose declared Content-Length
\* exceeds the ceiling never reaches a handler: it is answered 413 when its
\* identity is below the limit and 429 when its identity is at the limit.
C2_OversizeRejected ==
    [][\A k \in Conns :
          (Arrives(k) /\ Oversize(conn'[k].req)) =>
             /\ conn'[k].stage = "responded"
             /\ conn'[k].resp.status =
                   IF Cardinality(Recent(ClientIp(conn'[k].src))) >= RateLimit
                   THEN 429 ELSE 413]_vars

\* C2 witness: an oversize request answered 413 and one answered 429
C2_Witness ==
    \E k1, k2 \in Conns :
       /\ conn[k1].stage = "responded" /\ Oversize(conn[k1].req)
       /\ conn[k1].resp.status = 413
       /\ conn[k2].stage = "responded" /\ Oversize(conn[k2].req)
       /\ conn[k2].resp.status = 429

\* C2 (as claimed): every oversize multipart request is answered 413,
\* whatever the rate-limit state of its identity.
C2_Always413 ==
    \A k \in Conns :
       (conn[k].stage # "idle" /\ Oversize(conn[k].req))
          => conn[k].resp.status = 413

\* The endpoint has answered the request on connection k
Handled(k, endpoint) ==
    /\ conn[k].stage = "responded"
    /\ conn[k].req.endpoint = endpoint
    /\ conn[k].resp.kind \notin {"rate_limited", "too_large"}

\* The string holds a forward slash, a backslash or a NUL
BadChar(id) == \E i \in 1..Len(id) : id[i] \in {"/", "\\", NUL}

\* C3: for every identifier that contains "/", "\" or NUL, GET /metadata
\* answers 400 without touching the filesystem, and find_metadata_path
\* returns no path without touching it.
C3_SeparatorsRejected ==
    /\ \A k \in Conns :
          (Handled(k, "metadata") /\ BadChar(conn[k].req.id))
             => (conn[k].resp.status = 400 /\ conn[k].probes = <<>>)
    /\ \A id \in Identifiers :
          BadChar(id) =>
             find_metadata_path(fs, id) = [path |-> Absent, probes |-> <<>>]

\* C3 witness: GET /metadata/../etc/passwd has been answered 400
C3_Witness ==
    \E k \in Conns :
       /\ Handled(k, "metadata")
       /\ conn[k].req.id = EtcPasswd
       /\ conn[k].resp.status = 400

\* The canonical 8-4-4-4-12 form of a UUID
CanonicalUuid(id) ==
    /\ Len(id) = 36
    /\ \A i \in 1..36 :
          IF i \in {9, 14, 19, 24} THEN id[i] = "-" ELSE id[i] \in HexDigits

\* The string matches ^[A-Za-z0-9_-]+$
InClass(id) == Len(id) >= 1 /\ \A i \in 1..Len(id) : id[i] \in WordChars

\* C4 (as claimed): with no allow-list configured, GET /metadata passes
\* validation (does not answer 400) exactly when the raw identifier is
\* non-empty and is a canonical UUID or matches ^[A-Za-z0-9_-]+$.
C4_RawAllowList ==
    \A k \in Conns :
       (Handled(k, "metadata") /\ ~allowed_env.set)
          => (conn[k].resp.status # 400
                 <=> (CanonicalUuid(conn[k].req.id) \/ InClass(conn[k].req.id)))

\* C5 (as claimed): every filesystem access made for a client-supplied
\* identifier comes after the identifier passed validation and is guarded by
\* the containment check, and GET /video reports no file that lies outside
\* the videos root.
C5_EveryPathGuarded ==
    \A k \in Conns :
       /\ conn[k].stage = "responded"
             => \A i \in 1..Len(conn[k].probes) :
                   conn[k].probes[i].validated /\ conn[k].probes[i].guarded
       /\ (Handled(k, "video") /\ conn[k].resp.status = 200)
             => \E i \in 1..5 :
                   LET e == Entry(fs, conn[k].req.id \o VIDEO_EXTENSIONS[i])
                   IN  e.kind \in {"file", "dir"}
                       /\ ~Escapes(conn[k].req.id \o VIDEO_EXTENSIONS[i])

\* The extensions in the order the search tries them
Exts == <<Mp4, Avi, Mov, Mkv, Webm>>

\* What name resolves to: the target of a symbolic link, else name itself
Target(name) ==
    IF \E e \in fs.root : e.name = name /\ e.kind = "inlink"
    THEN (CHOOSE e \in fs.root : e.name = name /\ e.kind = "inlink").target
    ELSE name

\* name is, or links to, a file or directory in the videos root itself
InRoot(name) ==
    \E e \in fs.root : e.name = Target(name) /\ e.kind \in {"file", "dir"}

\* The extensions for which the videos root holds a video id.ext and, next
\* to the file that name resolves to, its sidecar
Hits(id) ==
    {i \in 1..5 : /\ InRoot(id \o Exts[i])
                  /\ InRoot(Target(id \o Exts[i]) \o JsonSuffix)}

\* The sidecar of the video with extension number i, resolved
SidecarOf(id, i) == Target(Target(id \o Exts[i]) \o JsonSuffix)

\* The files the handler opened for the request on connection k
Opened(k) ==
    {conn[k].probes[i].path :
        i \in {j \in 1..Len(conn[k].probes) : conn[k].probes[j].op = "open"}}

\* GET /metadata got as far as the lookup
Looked(k) == Handled(k, "metadata") /\ conn[k].resp.status \notin {400, 403}

\* C6 (as amended): find searches one location, the sidecar
\* {videofile}.json next to the file that a video name {identifier}{ext} in
\* the videos root resolves to, trying .mp4 .avi .mov .mkv .webm in that
\* order; it returns the first hit, and no path exactly when no extension
\* has a video with a sidecar.  A metadata root or a labels root is not
\* searched.
C6_SidecarOnly ==
    \A k \in Conns :
       Looked(k) =>
          LET id == Strip(conn[k].req.id)
          IN  /\ conn[k].resp.kind = "placeholder" <=> Hits(id) = {}
              /\ Hits(id) # {}
                    => Opened(k) = {SidecarOf(id, SetMin(Hits(id)))}

\* C6 witness: two extensions have a sidecar, .mp4 has a video without one,
\* and the artifact of the earlier of the two has been read
C6_Witness ==
    \E k \in Conns :
       /\ Looked(k)
       /\ Cardinality(Hits(Strip(conn[k].req.id))) >= 2
       /\ InRoot(Strip(conn[k].req.id) \o Mp4)
       /\ 1 \notin Hits(Strip(conn[k].req.id))
       /\ conn[k].resp.kind = "passthrough"

\* C6 (as claimed): find returns no path only when none of the four
\* locations (metadata root, sidecar, labels root, labels glob) holds an
\* artifact.
C6_FourLocations ==
    \A k \in Conns :
       (Looked(k) /\ conn[k].resp.kind = "placeholder") =>
          LET id == Strip(conn[k].req.id)
          IN  /\ (id \o JsonSuffix) \notin fs.metadata
              /\ Hits(id) = {}
              /\ \A n \in fs.labels :
                    ~(Len(n) >= Len(id) /\ SubSeq(n, 1, Len(id)) = id)

\* A metadata fetch that located an artifact
Locates(resp) ==
    resp.kind \in {"passthrough", "transformed", "corrupt", "read_error"}

\* C7 (as claimed): for every entry of GET /videos and of GET /video, the
\* has_metadata flag is true exactly when GET /metadata for the entry's name
\* locates an artifact (a fetch the allow-list forbids is left aside).
C7_FlagAgreesWithFetch ==
    \A k \in Conns :
       (Handled(k, "videos") \/ Handled(k, "video")) =>
          \A v \in conn[k].resp.videos :
             LET fetch == get_metadata(fs, allowed_env, v.name).resp
             IN  fetch.kind # "forbidden"
                    => (v.has_metadata <=> Locates(fetch))

\* The identifier is one validation accepts
WellFormed(id) == id # <<>> /\ ~BadChar(id) /\ (UUIDParses(id) \/ InClass(id))

\* No allow-list is configured, or the identifier is on it
Permitted(id) ==
    \/ ~allowed_env.set
    \/ \E i \in 1..Len(allowed_env.items) : Strip(allowed_env.items[i]) = id

\* C8: GET /metadata checks validation, then authorization, then looks up:
\* a malformed identifier is answered 400 whatever the allow-list; a
\* well-formed identifier outside a configured allow-list is answered 403
\* whether or not it has an artifact; a well-formed identifier that is
\* permitted is answered neither; no body is returned for an identifier
\* outside the allow-list.  (The identifier is the stripped one.)
C8_CheckOrder ==
    \A k \in Conns :
       Handled(k, "metadata") =>
          LET id == Strip(conn[k].req.id)
              r == conn[k].resp
          IN  /\ ~WellFormed(id) => r.status = 400
              /\ (WellFormed(id) /\ ~Permitted(id)) => r.status = 403
              /\ (WellFormed(id) /\ Permitted(id)) => r.status \notin {400, 403}
              /\ Present(r.body) => Permitted(id)

\* C8 witness: a malformed identifier that is not on the configured
\* allow-list has been answered 400
C8_Witness ==
    \E k \in Conns :
       /\ Handled(k, "metadata")
       /\ allowed_env.set
       /\ ~WellFormed(Strip(conn[k].req.id))
       /\ ~Permitted(Strip(conn[k].req.id))
       /\ conn[k].resp.status = 400

\* No file under any root matches the identifier
NoFileFor(id) ==
    /\ \A e \in fs.root \cup fs.other :
          ~(Len(e.name) >= Len(id) /\ SubSeq(e.name, 1, Len(id)) = id)
    /\ \A n \in fs.metadata \cup fs.labels :
          ~(Len(n) >= Len(id) /\ SubSeq(n, 1, Len(id)) = id)

\* C9: for a well-formed, permitted identifier with no matching file under
\* any root, GET /metadata answers 200 with the placeholder (labels, shots,
\* objects, text and faces empty, and a marker), and GET /video answers 404.
C9_NothingFound ==
    \A k \in Conns :
       /\ (Handled(k, "metadata")
           /\ WellFormed(Strip(conn[k].req.id))
           /\ Permitted(Strip(conn[k].req.id))
           /\ NoFileFor(Strip(conn[k].req.id)))
             => /\ conn[k].resp.status = 200
                /\ Present(conn[k].resp.body)
                /\ LET b == Get(conn[k].resp.body)
                   IN  /\ b.labels = Some(<<>>)
                       /\ b.shots = Some(<<>>)
                       /\ b.objects = Some(<<>>)
                       /\ b.text = Some(<<>>)
                       /\ b.faces = Some(<<>>)
                       /\ b.message # ""
       /\ (Handled(k, "video")
           /\ WellFormed(conn[k].req.id)
           /\ NoFileFor(conn[k].req.id))
             => conn[k].resp.status = 404

\* C9 witness: with videos in the root, the placeholder has been returned
\* for an identifier that matches none of them
C9_Witness ==
    \E k \in Conns :
       /\ Handled(k, "metadata")
       /\ fs.root # {}
       /\ WellFormed(Strip(conn[k].req.id))
       /\ NoFileFor(Strip(conn[k].req.id))
       /\ conn[k].resp.kind = "placeholder"

\* C10 (as claimed): no error response carries the text of an exception or
\* a filesystem path.
C10_GenericErrors ==
    \A k \in Conns :
       (conn[k].stage = "responded" /\ conn[k].resp.status >= 400)
          => conn[k].resp.exc = NoExc

\* C11 (as claimed): when the located artifact is a file that can be opened
\* but does not hold valid JSON (its bytes are not text, or its text does
\* not parse), GET /metadata answers 500 with "Invalid metadata file".
C11_CorruptIsDistinct ==
    \A k \in Conns :
       (Looked(k) /\ Hits(Strip(conn[k].req.id)) # {}) =>
          LET id == Strip(conn[k].req.id)
              e == Entry(fs, SidecarOf(id, SetMin(Hits(id))))
          IN  (e.kind = "file" /\ e.open_ok /\ (~e.decodes \/ ~e.parses))
                 => /\ conn[k].resp.status = 500
                    /\ conn[k].resp.kind = "corrupt"
                    /\ conn[k].resp.detail = "Invalid metadata file"

\* The document stored in the artifact that the request on connection k
\* located
Artifact(k) ==
    LET id == Strip(conn[k].req.id)
    IN  Entry(fs, SidecarOf(id, SetMin(Hits(id)))).doc

\* A document of the flat schema: an object none of whose labels has a
\* segments member, each label a record with a numeric or absent confidence
Flat(doc) ==
    /\ doc.kind = "object"
    /\ \A i \in 1..Len(OrEmpty(doc.labels)) :
          LET r == OrEmpty(doc.labels)[i]
          IN  r.kind = "dict" /\ ~Present(r.segments) /\ r.confidence.state # "null"

\* The description field, else the entity field, else "Unknown"
RefDescription(r) ==
    IF r.description \notin {Absent, Some("")} THEN Get(r.description)
    ELSE IF r.entity \notin {Absent, Some("")} THEN Get(r.entity)
    ELSE "Unknown"

RefConfidence(r) == IF r.confidence.state = "num" THEN r.confidence.v ELSE 0

\* The non-empty entries of the category field, or of the categories field
RefCategories(r) ==
    LET c == IF r.category \notin {Absent, Some(<<>>)} THEN Get(r.category)
             ELSE IF Present(r.categories) THEN Get(r.categories)
             ELSE <<>>
    IN  {c[i] : i \in 1..Len(c)} \ {""}

\* The reference group of description d over the records
RefGroup(records, d) ==
    LET members == {i \in 1..Len(records) : RefDescription(records[i]) = d}
        Timed(r) == /\ RefDescription(r) = d
                    /\ Present(r.start_time)
                    /\ Present(r.end_time)
        timed == SelectSeq(records, Timed)
        cats == UNION {RefCategories(records[i]) : i \in members}
    IN  [description |-> d,
         confidence |-> SetMax({RefConfidence(records[i]) : i \in members}),
         categories |-> Sorted(cats),
         segments |-> [i \in 1..Len(timed) |->
                          Segment(Get(timed[i].start_time), Get(timed[i].end_time),
                                  RefConfidence(timed[i]))]]

RefGrouping(records) ==
    {RefGroup(records, RefDescription(records[i])) : i \in 1..Len(records)}

\* C12: for every flat document the response's labels are the reference
\* grouping: one group per derived description, its confidence the maximum
\* over the records of that description (absent counted as 0), its
\* categories the sorted union of their non-empty entries, its segments
\* those of the records with both times, in input order.
C12_ReferenceGrouping ==
    \A k \in Conns :
       (Looked(k) /\ Hits(Strip(conn[k].req.id)) # {} /\ Flat(Artifact(k))) =>
          /\ conn[k].resp.kind = "transformed"
          /\ LET records == OrEmpty(Artifact(k).labels)
                 out == Get(Get(conn[k].resp.body).labels)
             IN  /\ Range(out) = RefGrouping(records)
                 /\ Len(out) = Cardinality(RefGrouping(records))

\* C12 witness: the two "Car" records have been answered as one group with
\* confidence 0.9, categories ["Vehicle"] and both segments
C12_Witness ==
    \E k \in Conns :
       /\ Looked(k)
       /\ Artifact(k).labels =
             Some(<<Item(Some("Car"), Some(1), Some(2), Num(8), Absent),
                    Item(Some("Car"), Some(5), Some(6), Num(9), Some(<<"Vehicle">>))>>)
       /\ Get(conn[k].resp.body).labels =
             Some(<<[description |-> "Car", confidence |-> 9,
                     categories |-> <<"Vehicle">>,
                     segments |-> <<Segment(1, 2, 8), Segment(5, 6, 9)>>]>>)

\* The labels of the metadata body returned on connection k
LabelsOut(k) == OrEmpty(Get(conn[k].resp.body).labels)

\* The description member of entry i of those labels, when it has one
DescriptionOut(k, i) ==
    IF conn[k].resp.kind = "passthrough" THEN LabelsOut(k)[i].description
    ELSE Some(LabelsOut(k)[i].description)

\* C13 (as claimed): in every metadata response, whichever branch produced
\* it, no two entries of labels have the same description.
C13_UniqueDescriptions ==
    \A k \in Conns :
       (Handled(k, "metadata") /\ Present(conn[k].resp.body)) =>
          \A i, j \in 1..Len(LabelsOut(k)) :
             (i # j /\ Present(DescriptionOut(k, i)))
                => DescriptionOut(k, i) # DescriptionOut(k, j)

\* What a client can tell of a group apart from its segments
Summary(g) ==
    [description |-> g.description, confidence |-> g.confidence,
     categories |-> g.categories]

\* The records in the order perm
Permuted(records, perm) == [i \in 1..Len(records) |-> records[perm[i]]]

\* C14: normalizing the records of a flat document in any other order gives
\* the same descriptions, each with the same confidence and the same
\* category list, and as many groups.
C14_PermutationInvariant ==
    \A k \in Conns :
       (Looked(k) /\ conn[k].resp.kind = "transformed") =>
          LET doc == Artifact(k)
              records == OrEmpty(doc.labels)
              out == LabelsOut(k)
          IN  \A perm \in Permutations(1..Len(records)) :
                 LET n == Normalize([doc EXCEPT !.labels =
                                        Some(Permuted(records, perm))],
                                    Strip(conn[k].req.id))
                     other == Get(Get(n.body).labels)
                 IN  /\ n.kind = "transformed"
                     /\ {Summary(other[i]) : i \in 1..Len(other)}
                           = {Summary(out[i]) : i \in 1..Len(out)}
                     /\ Len(other) = Len(out)

\* C14 witness: the record with confidence 0.9 came before the one with 0.8
\* of the same description, and the group has confidence 0.9
C14_Witness ==
    \E k \in Conns :
       /\ Looked(k)
       /\ conn[k].resp.kind = "transformed"
       /\ Artifact(k).labels =
             Some(<<Item(Some("Car"), Some(5), Some(6), Num(9), Some(<<"Vehicle">>)),
                    Item(Some("Car"), Some(1), Some(2), Num(8), Absent)>>)
       /\ LabelsOut(k)[1].confidence = 9
       /\ LabelsOut(k)[1].segments = <<Segment(5, 6, 9), Segment(1, 2, 8)>>

\* A metadata body read back as a stored document
DocOf(kind, b) ==
    [kind |-> "object", video_name |-> b.video_name, video_file |-> Absent,
     labels |-> IF kind = "passthrough" \/ ~Present(b.labels) THEN b.labels
                ELSE Some([i \in 1..Len(Get(b.labels)) |->
                             Group(Get(b.labels)[i].description,
                                   Get(b.labels)[i].confidence,
                                   Get(b.labels)[i].categories,
                                   Get(b.labels)[i].segments)]),
     shots |-> b.shots, objects |-> b.objects, text |-> b.text, faces |-> b.faces]

\* C15: normalization is idempotent: a document detected as grouped is
\* returned with its labels, shots, objects, text and faces as stored, and
\* normalizing the response to any stored document (flat, with or without
\* labels, or grouped) returns that response.
C15_Idempotent ==
    \A k \in Conns :
       (Looked(k) /\ Hits(Strip(conn[k].req.id)) # {} /\ Present(conn[k].resp.body)) =>
          LET b == Get(conn[k].resp.body)
              doc == DocOf(conn[k].resp.kind, b)
              again == Normalize(doc, Strip(conn[k].req.id))
          IN  /\ conn[k].resp.kind = "passthrough" =>
                    /\ b.labels = Artifact(k).labels
                    /\ b.shots = Artifact(k).shots
                    /\ b.objects = Artifact(k).objects
                    /\ b.text = Artifact(k).text
                    /\ b.faces = Artifact(k).faces
              /\ Present(again.body)
              /\ DocOf(again.kind, Get(again.body)) = doc

\* C15 witness: a flat document has been answered with two groups, each
\* with a segment
C15_Witness ==
    \E k \in Conns :
       /\ Looked(k)
       /\ conn[k].resp.kind = "transformed"
       /\ Len(LabelsOut(k)) = 2
       /\ \A i \in 1..2 : Len(LabelsOut(k)[i].segments) = 1

\* C16 (as claimed): when the stored document is detected as already
\* canonical (labels non-empty, one of them with a segments member), the
\* response passes labels, shots, objects, text and faces through unchanged
\* and carries a video_name: the document's own when it has one, otherwise
\* the requested identifier.
C16_PassThroughNamed ==
    \A k \in Conns :
       (Looked(k) /\ Hits(Strip(conn[k].req.id)) # {}
        /\ Artifact(k).kind = "object"
        /\ \E i \in 1..Len(OrEmpty(Artifact(k).labels)) :
              Present(OrEmpty(Artifact(k).labels)[i].segments)) =>
          /\ Present(conn[k].resp.body)
          /\ LET b == Get(conn[k].resp.body)
                 doc == Artifact(k)
             IN  /\ b.labels = doc.labels
                 /\ b.shots = doc.shots
                 /\ b.objects = doc.objects
                 /\ b.text = doc.text
                 /\ b.faces = doc.faces
                 /\ b.video_name = IF Present(doc.video_name) THEN doc.video_name
                                   ELSE Some(Strip(conn[k].req.id))

\* C17 (as claimed): every successful response of GET /metadata has the
\* members video_name, labels, shots, objects, text and faces.
C17_CanonicalShape ==
    \A k \in Conns :
       (Handled(k, "metadata") /\ conn[k].resp.status = 200) =>
          /\ Present(conn[k].resp.body)
          /\ LET b == Get(conn[k].resp.body)
             IN  /\ Present(b.video_name)
                 /\ Present(b.labels)
                 /\ Present(b.shots)
                 /\ Present(b.objects)
                 /\ Present(b.text)
                 /\ Present(b.faces)

\* The letters of the video extensions, each with its upper-case form
UpperOf == {<<"M", "m">>, <<"P", "p">>, <<"A", "a">>, <<"V", "v">>, <<"I", "i">>,
            <<"O", "o">>, <<"K", "k">>, <<"W", "w">>, <<"E", "e">>, <<"B", "b">>}

\* The name ends in one of the video extensions, in any letter case
HasVideoExtension(name) ==
    \E i \in 1..5 :
       /\ Len(name) > Len(Exts[i])
       /\ \A j \in 1..Len(Exts[i]) :
             LET c == name[Len(name) - Len(Exts[i]) + j]
             IN  c = Exts[i][j]
                 \/ <<c, Exts[i][j]>> \in UpperOf

\* The entry that a direct child of the videos root resolves to
FileBehind(e) ==
    IF e.kind = "inlink" THEN CHOOSE x \in fs.root : x.name = e.target ELSE e

\* The direct children of the videos root that the listing is to report:
\* regular files (symbolic links followed) with a video extension, whose
\* stat succeeds with a size above zero
Eligible ==
    {e \in fs.root :
        /\ FileBehind(e).kind \in {"file", "outlink"}
        /\ HasVideoExtension(e.name)
        /\ FileBehind(e).stat_ok
        /\ FileBehind(e).size > 0}

\* C18: GET /videos returns exactly one entry for each direct child of the
\* videos root that is a regular file with a video extension (compared
\* case-insensitively) and a size above zero; zero-byte files are left out,
\* and an entry whose stat fails is skipped while the others are listed.
C18_ListVideos ==
    \A k \in Conns :
       Handled(k, "videos") =>
          /\ conn[k].resp.status = 200
          /\ {v.filename : v \in conn[k].resp.videos} = {e.name : e \in Eligible}
          /\ Cardinality(conn[k].resp.videos) = Cardinality(Eligible)
          /\ \A v \in conn[k].resp.videos :
                \E e \in Eligible : v.filename = e.name /\ v.size = FileBehind(e).size

\* C18 witness: beside a zero-byte clip1.mp4 and an entry whose stat fails,
\* the two eligible videos have been listed, one with an upper-case extension
C18_Witness ==
    \E k \in Conns :
       /\ Handled(k, "videos")
       /\ \E e \in fs.root : e.name = Clip1 \o Mp4 /\ e.size = 0
       /\ \E e \in fs.root : e.kind = "file" /\ ~e.stat_ok
       /\ Cardinality(conn[k].resp.videos) = 2
       /\ \E v \in conn[k].resp.videos : v.filename = A \o <<".", "M", "P", "4">>

\* C19 (as claimed): every VideoEntry returned by GET /videos or by
\* GET /video has a size above zero.
C19_PositiveSize ==
    \A k \in Conns :
       (Handled(k, "videos") \/ Handled(k, "video")) =>
          \A v \in conn[k].resp.videos : v.size > 0

\* C20 (as claimed): a request that the middleware rejects, as rate limited
\* (429) or as payload too large (413), leaves the window of its identity as
\* it was after pruning, and every other window as it was.
C20_RejectionsRecordNothing ==
    [][\A k \in Conns :
          (Arrives(k) /\ conn'[k].resp.status \in {429, 413}) =>
             LET c == ClientIp(conn'[k].src)
             IN  ip_windows' =
                    [ip_windows EXCEPT ![c] = Prune(@, now - WindowSeconds)]]_vars

\* name is a resolved path in the videos root: a file or directory of the
\* root itself, no symbolic link
ResolvesInside(name) ==
    /\ ~Contains(name, "/")
    /\ \E e \in fs.root : e.name = name /\ e.kind \in {"file", "dir"}

\* name is a symbolic link that leaves the videos root
Leaves(name) == \E e \in fs.root : e.name = name /\ e.kind = "outlink"

\* C21: whenever find_metadata_path returns a path, the path is a resolved
\* path inside the videos root and is the sidecar of a video that resolves
\* inside the root; a video or a sidecar that is a symbolic link leaving the
\* root is never the one found, and GET /metadata opens only such paths.
C21_FoundInsideRoot ==
    /\ \A id \in Identifiers :
          LET found == find_metadata_path(fs, id)
          IN  Present(found.path) =>
                 /\ ResolvesInside(Get(found.path))
                 /\ \E i \in 1..5 :
                       /\ ~Leaves(id \o Exts[i])
                       /\ ResolvesInside(Target(id \o Exts[i]))
                       /\ ~Leaves(Target(id \o Exts[i]) \o JsonSuffix)
                       /\ Get(found.path) = SidecarOf(id, i)
    /\ \A k \in Conns :
          Handled(k, "metadata") => \A p \in Opened(k) : ResolvesInside(p)

\* C21 witness: the video is a symbolic link leaving the root, a sidecar
\* with its name lies in the root, and the fetch has answered the placeholder
C21_Witness ==
    \E k \in Conns :
       /\ Looked(k)
       /\ \E i \in 1..5 :
             /\ Leaves(Strip(conn[k].req.id) \o Exts[i])
             /\ ResolvesInside(Strip(conn[k].req.id) \o Exts[i] \o JsonSuffix)
       /\ conn[k].resp.kind = "placeholder"

\* C22: under every interleaving of the requests on the connections, the
\* requests of one identity that were not rate limited number at most
\* RateLimit within any span of 60 seconds, and the identity's window never
\* holds more than RateLimit timestamps.
C22_NeverOverLimit ==
    \A c \in Identities :
       /\ Len(ip_windows[c]) <= RateLimit
       /\ \A i \in 1..Len(history[c]) :
             Cardinality({j \in 1..Len(history[c]) :
                             /\ history[c][j] >= history[c][i]
                             /\ history[c][j] - history[c][i] <= 60}) <= RateLimit

\* C22 witness: two requests of one identity are in their handlers at the
\* same time, and with them the identity has used up its limit
C22_Witness ==
    \E k1, k2 \in Conns :
       /\ k1 # k2
       /\ conn[k1].stage = "admitted"
       /\ conn[k2].stage = "admitted"
       /\ ClientIp(conn[k1].src) = ClientIp(conn[k2].src)
       /\ Cardinality(Recent(ClientIp(conn[k1].src))) = RateLimit
       /\ Len(ip_windows[ClientIp(conn[k1].src)]) = RateLimit

\* C23: a request is answered 429 only in the step in which the middleware
\* takes it, straight from the idle connection: it never reaches a handler,
\* no filesystem access is made for it and no metadata or video entry is
\* produced for it.
C23_ThrottleFirst ==
    [][\A k \in Conns :
          (conn'[k].resp.status = 429 /\ conn[k].resp.status # 429) =>
             /\ conn[k].stage = "idle"
             /\ conn'[k].stage = "responded"
             /\ conn'[k].resp.kind = "rate_limited"
             /\ conn'[k].probes = <<>>
             /\ ~Present(conn'[k].resp.body)
             /\ conn'[k].resp.videos = {}]_vars

\* C23 witness: a metadata request within the size ceiling has been answered
\* 429 with no filesystem access made for it
C23_Witness ==
    \E k \in Conns :
       /\ conn[k].stage = "responded"
       /\ conn[k].resp.status = 429
       /\ conn[k].req.endpoint = "metadata"
       /\ ~Oversize(conn[k].req)
       /\ conn[k].probes = <<>>

====
